---- MODULE Spec2Model ----
(***************************************************************************)
(* Model of inventory_system_cleaned.py: an in-memory inventory (a Python  *)
(* dict from item name to quantity), its add / remove / query / low-stock  *)
(* operations, and its JSON persistence (load_data / save_data).           *)
(*                                                                         *)
(* A dict is modelled as a sequence of entries [k, v] with pairwise        *)
(* distinct keys, in insertion order (the order dict.items() iterates in). *)
(* Python argument values are tagged records, so that the isinstance       *)
(* checks of the code can be modelled.                                     *)
(***************************************************************************)
EXTENDS Integers, Sequences, FiniteSets, TLC

\* ------------------------------------------------------------------ bounds
MaxQty == 2
MaxLogs == 1
MaxStored == 10

\* ----------------------------------------------------------- Python values
PyInt(n) == [t |-> "int", n |-> n, s |-> ""]
PyStr(s) == [t |-> "str", n |-> 0, s |-> s]
\* the float n + 0.5
PyFloat(n) == [t |-> "float", n |-> n, s |-> ""]

\* isinstance(x, int) / isinstance(x, str)
IsInt(x) == x.t = "int"
IsStr(x) == x.t = "str"

Names == {"apple", "banana"}

\* item arguments: valid names, the empty string, and a non-string (123 in main)
ItemArgs == {PyStr(x) : x \in Names \cup {""}} \cup {PyInt(123)}

\* qty arguments: integers from -1, the string "ten" (main) and the float 1.5
QtyArgs == {PyInt(n) : n \in (-1)..MaxQty} \cup {PyStr("ten"), PyFloat(1)}

\* ------------------------------------------------------------- dict model
Keys(d) == {d[i].k : i \in 1..Len(d)}

\* the dict key an argument value denotes; only str keys are ever stored,
\* and a str never equals an int, so a non-str argument matches no key
HasKey(d, item) == IsStr(item) /\ item.s \in Keys(d)

IndexOf(d, k) == CHOOSE i \in 1..Len(d) : d[i].k = k

\* d[item] for a present key
Lookup(d, item) == d[IndexOf(d, item.s)].v

\* d.get(item, dflt)
DictGet(d, item, dflt) == IF HasKey(d, item) THEN Lookup(d, item) ELSE dflt

\* d[item] = v : in place for a present key, appended for a new one
DictSet(d, item, v) ==
    IF HasKey(d, item)
    THEN [d EXCEPT ![IndexOf(d, item.s)].v = v]
    ELSE Append(d, [k |-> item.s, v |-> v])

\* a deletion that also drops every entry after the deleted one
DictDelTruncate(d, item) == SubSeq(d, 1, IndexOf(d, item.s) - 1)

\* del d[item] for a present key
DictDel(d, item) ==
    LET i == IndexOf(d, item.s)
    IN  SubSeq(d, 1, i - 1) \o SubSeq(d, i + 1, Len(d))

\* ------------------------------------------------------------------ state
VARIABLES
    stock,   \* the inventory dict (stock_data)
    logs,    \* the caller-supplied log accumulator
    disk,    \* path -> file state
    saved,   \* path -> what the last completed save to the path wrote
    last     \* the last call: its arguments, the state before it, its outcome

vars == <<stock, logs, disk, saved, last>>

Paths == {"inventory.json", "backup.json"}

NoFile == [kind |-> "missing", members |-> <<>>, closed |-> FALSE]
NoSave == [done |-> FALSE, data |-> <<>>]

NoCall ==
    [op |-> "none", item |-> PyStr(""), qty |-> PyInt(0), thr |-> 0,
     path |-> "", supplied |-> FALSE, before |-> <<>>, logsBefore |-> <<>>,
     raised |-> "", logged |-> "", retQty |-> 0, retItems |-> <<>>,
     retDict |-> <<>>]

Init ==
    /\ stock = <<>>
    /\ logs = <<>>
    /\ disk = [p \in Paths |-> NoFile]
    /\ saved = [p \in Paths |-> NoSave]
    /\ last = NoCall

\* --------------------------------------------------------------- add_item
\* a validation that forgets the sign check
AddItemErrorNoSign(item, qty) ==
    IF ~IsStr(item) \/ item.s = "" THEN "ValueError"
    ELSE IF ~IsInt(qty) THEN "ValueError"
    ELSE ""

\* the exception add_item raises for its arguments, "" when it raises none
AddItemError(item, qty) ==
    IF ~IsStr(item) \/ item.s = "" THEN "ValueError"
    ELSE IF ~IsInt(qty) THEN "ValueError"
    ELSE IF qty.n < 0 THEN "ValueError"
    ELSE ""

\* an update that overwrites the quantity instead of adding to it
AddItemStockOverwrite(d, item, qty) == DictSet(d, item, qty.n)

\* stock_data[item] = stock_data.get(item, 0) + qty
AddItemStock(d, item, qty) == DictSet(d, item, DictGet(d, item, 0) + qty.n)

\* f"{datetime.now()}: Added {qty} of {item}" (the timestamp is left out)
LogMessage(item, qty) == [qty |-> qty.n, item |-> item.s]

\* add_item(stock, item, qty, logs) when supplied, add_item(stock, item, qty)
\* otherwise (logs=None: the message goes to a fresh list the caller never sees)
add_item(item, qty, supplied) ==
    LET err == AddItemError(item, qty)
        call == [NoCall EXCEPT !.op = "add", !.item = item, !.qty = qty,
                               !.supplied = supplied, !.before = stock,
                               !.logsBefore = logs]
    IN  IF err # ""
        THEN /\ last' = [call EXCEPT !.raised = err]
             /\ UNCHANGED <<stock, logs, disk, saved>>
        ELSE /\ DictGet(stock, item, 0) + qty.n <= MaxQty
             /\ supplied => Len(logs) < MaxLogs
             /\ stock' = AddItemStock(stock, item, qty)
             /\ logs' = IF supplied THEN Append(logs, LogMessage(item, qty))
                        ELSE logs
             /\ last' = [call EXCEPT !.logged = "info"]
             /\ UNCHANGED <<disk, saved>>

AddItem == \E item \in ItemArgs, qty \in QtyArgs, supplied \in BOOLEAN :
               add_item(item, qty, supplied)

\* ------------------------------------------------------------ remove_item
\* an early return that checks the type only
RemoveRejectedTypeOnly(qty) == ~IsInt(qty)

\* the early return of remove_item: not isinstance(qty, int) or qty < 0
RemoveRejected(qty) == ~IsInt(qty) \/ qty.n < 0

\* a try block that deletes only below zero
RemoveStockStrict(d, item, qty) ==
    IF Lookup(d, item) - qty.n < 0
    THEN DictDel(d, item)
    ELSE DictSet(d, item, Lookup(d, item) - qty.n)

\* the try block for a present key
RemoveStock(d, item, qty) ==
    IF Lookup(d, item) - qty.n <= 0
    THEN DictDel(d, item)
    ELSE DictSet(d, item, Lookup(d, item) - qty.n)

\* a remove_item without the except clause
RemoveOutcomeUncaught(d, item, qty) ==
    IF ~IsInt(qty) \/ qty.n < 0
    THEN [stock |-> d, raised |-> "", logged |-> "warning"]
    ELSE IF HasKey(d, item)
    THEN [stock |-> (IF Lookup(d, item) - qty.n <= 0 THEN DictDel(d, item)
                     ELSE DictSet(d, item, Lookup(d, item) - qty.n)),
          raised |-> "", logged |-> "info"]
    ELSE [stock |-> d, raised |-> "KeyError", logged |-> ""]

\* what remove_item does: the dict it leaves, the exception it lets through,
\* the level it logs at
RemoveOutcome(d, item, qty) ==
    IF RemoveRejected(qty)
    THEN [stock |-> d, raised |-> "", logged |-> "warning"]
    ELSE IF HasKey(d, item)
    THEN [stock |-> RemoveStock(d, item, qty), raised |-> "", logged |-> "info"]
    ELSE \* stock_data[item] raises KeyError, caught by the except clause
         [stock |-> d, raised |-> "", logged |-> "warning"]

remove_item(item, qty) ==
    LET out == RemoveOutcome(stock, item, qty)
    IN  /\ stock' = out.stock
        /\ last' = [NoCall EXCEPT !.op = "remove", !.item = item, !.qty = qty,
                                  !.before = stock,
                                  !.raised = out.raised, !.logged = out.logged]
        /\ UNCHANGED <<logs, disk, saved>>

RemoveItem == \E item \in ItemArgs, qty \in QtyArgs : remove_item(item, qty)

\* ---------------------------------------------------------------- get_qty
GetQty(d, item) == DictGet(d, item, 0)

get_qty(item) ==
    /\ last' = [NoCall EXCEPT !.op = "get", !.item = item,
                              !.retQty = GetQty(stock, item)]
    /\ UNCHANGED <<stock, logs, disk, saved>>

GetQuantity == \E item \in ItemArgs : get_qty(item)

\* -------------------------------------------------------- check_low_items
DefaultThreshold == 5

\* a scan that also reports a quantity equal to the threshold
RECURSIVE CheckLowItemsInclusive(_, _)
CheckLowItemsInclusive(d, threshold) ==
    IF d = <<>> THEN <<>>
    ELSE (IF Head(d).v <= threshold THEN <<Head(d).k>> ELSE <<>>)
         \o CheckLowItemsInclusive(Tail(d), threshold)

\* [item for item, qty in stock_data.items() if qty < threshold]
RECURSIVE CheckLowItems(_, _)
CheckLowItems(d, threshold) ==
    IF d = <<>> THEN <<>>
    ELSE (IF Head(d).v < threshold THEN <<Head(d).k>> ELSE <<>>)
         \o CheckLowItems(Tail(d), threshold)

Thresholds == ((-1)..(MaxQty + 1)) \cup {DefaultThreshold}

check_low_items(threshold) ==
    /\ last' = [NoCall EXCEPT !.op = "scan", !.thr = threshold,
                              !.before = stock,
                              !.retItems = CheckLowItems(stock, threshold)]
    /\ UNCHANGED <<stock, logs, disk, saved>>

ScanLow == \E threshold \in Thresholds : check_low_items(threshold)

\* ------------------------------------------------------- JSON number text
DigitChars == <<"0", "1", "2", "3", "4", "5", "6", "7", "8", "9">>
IsDigit(c) == \E i \in 1..10 : DigitChars[i] = c
DigitValue(c) == (CHOOSE i \in 1..10 : DigitChars[i] = c) - 1

\* a writer that emits the digits least significant first
RECURSIVE NatToTextReversed(_)
NatToTextReversed(n) ==
    IF n < 10 THEN <<DigitChars[n + 1]>>
    ELSE <<DigitChars[(n % 10) + 1]>> \o NatToTextReversed(n \div 10)

\* the decimal text json.dump writes for a non-negative integer
RECURSIVE NatToText(_)
NatToText(n) ==
    IF n < 10 THEN <<DigitChars[n + 1]>>
    ELSE Append(NatToText(n \div 10), DigitChars[(n % 10) + 1])

\* the decimal text json.dump writes for an integer
IntToText(n) == IF n < 0 THEN <<"-">> \o NatToText(0 - n) ELSE NatToText(n)

\* a JSON integer literal: -?(0|[1-9][0-9]*)
IsNatText(t) ==
    /\ Len(t) >= 1
    /\ \A i \in 1..Len(t) : IsDigit(t[i])
    /\ Len(t) > 1 => t[1] # "0"

IsIntText(t) == IF t # <<>> /\ Head(t) = "-" THEN IsNatText(Tail(t)) ELSE IsNatText(t)

RECURSIVE NatFromText(_)
NatFromText(t) ==
    IF t = <<>> THEN 0
    ELSE 10 * NatFromText(SubSeq(t, 1, Len(t) - 1)) + DigitValue(t[Len(t)])

\* the integer json.load reads from a valid literal
IntFromText(t) == IF Head(t) = "-" THEN 0 - NatFromText(Tail(t)) ELSE NatFromText(t)

\* ----------------------------------------------------------- file states
\* A file is missing, "denied" (open raises an OSError: no permission, a
\* directory), "badutf8" (bytes that are not UTF-8) or "text": the members
\* "key": literal of a JSON object in order, closed when the final brace is
\* there (a write that failed midway leaves an unclosed prefix).
TextFile(members, closed) == [kind |-> "text", members |-> members, closed |-> closed]
DeniedFile == [kind |-> "denied", members |-> <<>>, closed |-> FALSE]
BadUtf8File == [kind |-> "badutf8", members |-> <<>>, closed |-> FALSE]

\* json.dump(stock_data, file, indent=4): one member per entry, in dict order
RECURSIVE JsonDump(_)
JsonDump(d) ==
    IF d = <<>> THEN <<>>
    ELSE <<[key |-> Head(d).k, lit |-> IntToText(Head(d).v)]>> \o JsonDump(Tail(d))

\* the dict json.load builds from the members: a repeated key keeps its first
\* position and takes the last value
RECURSIVE JsonObject(_)
JsonObject(members) ==
    IF members = <<>> THEN <<>>
    ELSE LET m == members[Len(members)]
         IN  DictSet(JsonObject(SubSeq(members, 1, Len(members) - 1)),
                     PyStr(m.key), IntFromText(m.lit))

\* the text is a JSON document
ValidJson(f) == f.closed /\ \A i \in 1..Len(f.members) : IsIntText(f.members[i].lit)

\* -------------------------------------------------------------- load_data
\* what load_data does on a file: the exception it lets through, the level
\* it logs at, the dict it returns
LoadOutcome(f) ==
    IF f.kind = "missing"                               \* FileNotFoundError
    THEN [raised |-> "", logged |-> "warning", ret |-> <<>>]
    ELSE IF f.kind = "denied"                           \* IOError
    THEN [raised |-> "", logged |-> "error", ret |-> <<>>]
    ELSE IF f.kind = "badutf8"     \* file.read() raises UnicodeDecodeError,
                                   \* a ValueError no except clause names
    THEN [raised |-> "UnicodeDecodeError", logged |-> "", ret |-> <<>>]
    ELSE IF ~ValidJson(f)                               \* json.JSONDecodeError
    THEN [raised |-> "", logged |-> "error", ret |-> <<>>]
    ELSE [raised |-> "", logged |-> "", ret |-> JsonObject(f.members)]

load_data(path) ==
    LET out == LoadOutcome(disk[path])
    IN  /\ last' = [NoCall EXCEPT !.op = "load", !.path = path,
                                  !.raised = out.raised, !.logged = out.logged,
                                  !.retDict = out.ret]
        /\ UNCHANGED <<stock, logs, disk, saved>>

LoadData == \E path \in Paths : load_data(path)

\* -------------------------------------------------------------- save_data
\* the file a completed save leaves
SavedFile(d) == TextFile(JsonDump(d), TRUE)

\* save_data(stock_data, path). open(path, "w") raises an OSError on a denied
\* file and leaves it alone; otherwise the file is truncated and the text
\* written, completely, or up to the point where a write raises an OSError.
\* Either error is caught and logged.
save_data(d, path) ==
    LET call == [NoCall EXCEPT !.op = "save", !.path = path, !.before = d]
    IN  IF disk[path].kind = "denied"
        THEN /\ last' = [call EXCEPT !.logged = "error"]
             /\ UNCHANGED <<stock, logs, disk, saved>>
        ELSE \/ /\ disk' = [disk EXCEPT ![path] = SavedFile(d)]
                /\ saved' = [saved EXCEPT ![path] = [done |-> TRUE, data |-> d]]
                /\ last' = call
                /\ UNCHANGED <<stock, logs>>
             \/ \E n \in 0..Len(d) :
                /\ disk' = [disk EXCEPT ![path] =
                               TextFile(SubSeq(JsonDump(d), 1, n), FALSE)]
                /\ saved' = [saved EXCEPT ![path] = NoSave]
                /\ last' = [call EXCEPT !.logged = "error"]
                /\ UNCHANGED <<stock, logs>>

\* the dicts handed to save_data: every dict over Names with quantities
\* among StoredQtys
StoredQtys == {0, 7, MaxStored}

Ledgers ==
    {<<>>}
    \cup {<<[k |-> a, v |-> x]>> : a \in Names, x \in StoredQtys}
    \cup {<<[k |-> a, v |-> x], [k |-> b, v |-> y]>> :
            a \in Names, b \in Names, x \in StoredQtys, y \in StoredQtys}

DistinctKeys(d) == \A i, j \in 1..Len(d) : d[i].k = d[j].k => i = j

SaveData == \E d \in {m \in Ledgers : DistinctKeys(m)}, path \in Paths :
                save_data(d, path)

\* the files a path may hold before the program runs
InitialFiles ==
    { NoFile, DeniedFile, BadUtf8File,
      TextFile(<<[key |-> "apple", lit |-> <<"0", "1">>]>>, TRUE),
      TextFile(<<[key |-> "apple", lit |-> <<"7">>]>>, FALSE),
      TextFile(<<[key |-> "apple", lit |-> <<"1">>],
                 [key |-> "banana", lit |-> <<"2">>],
                 [key |-> "apple", lit |-> <<"-", "3">>]>>, TRUE) }

StoreInit ==
    /\ stock = <<>>
    /\ logs = <<>>
    /\ disk \in [Paths -> InitialFiles]
    /\ saved = [p \in Paths |-> NoSave]
    /\ last = NoCall

StoreNext == SaveData \/ LoadData

StoreSpec == StoreInit /\ [][StoreNext]_vars

Next == AddItem \/ RemoveItem \/ GetQuantity \/ ScanLow

Spec == Init /\ [][Next]_vars
\* ================================================================= claims
\* arguments add_item accepts: a non-empty str item and an int qty >= 0
ValidAddArgs(item, qty) == IsStr(item) /\ item.s # "" /\ IsInt(qty) /\ qty.n >= 0

\* a qty remove_item accepts: an int >= 0
ValidRemoveQty(qty) == IsInt(qty) /\ qty.n >= 0

\* the quantity stored under name k in d
QtyOf(d, k) == d[CHOOSE i \in 1..Len(d) : d[i].k = k].v

\* C1: starting from the empty inventory, after any sequence of add_item and
\* remove_item calls every key of the inventory has a strictly positive
\* quantity.  (As claimed; add_item(stock, "apple", 0) stores a zero.)
C1_AllQuantitiesPositive == \A i \in 1..Len(stock) : stock[i].v > 0

\* C2: an add_item call with a non-empty str item and an int qty >= 0 succeeds
\* and leaves the item present with get_qty equal to get_qty before the call
\* (0 for an absent item) plus qty.
C2_AddIncreasesByQty ==
    (last.op = "add" /\ ValidAddArgs(last.item, last.qty)) =>
        /\ last.raised = ""
        /\ last.item.s \in Keys(stock)
        /\ GetQty(stock, last.item) = GetQty(last.before, last.item) + last.qty.n

C2_Witness ==
    /\ last.op = "add" /\ last.raised = ""
    /\ last.item.s \in Keys(last.before)
    /\ last.qty.n > 0
    /\ GetQty(last.before, last.item) > 0

\* C3: an add_item call with an empty or non-str item, a non-int qty or a
\* qty < 0 raises ValueError and changes nothing: the inventory and the
\* caller's log accumulator are what they were before the call.
C3_InvalidAddRaisesUnchanged ==
    (last.op = "add" /\ ~ValidAddArgs(last.item, last.qty)) =>
        /\ last.raised = "ValueError"
        /\ stock = last.before
        /\ logs = last.logsBefore

C3_Witness ==
    /\ last.op = "add" /\ last.supplied
    /\ IsStr(last.item) /\ last.item.s \in Keys(last.before)
    /\ IsInt(last.qty) /\ last.qty.n < 0
    /\ last.raised = "ValueError"

\* C4: remove_item on a present item with an int qty >= 0 deletes the key when
\* current - qty <= 0, after which get_qty is 0, and otherwise leaves the key
\* with exactly current - qty, which is positive.
C4_RemoveDeletesOrDecrements ==
    (/\ last.op = "remove"
     /\ HasKey(last.before, last.item)
     /\ ValidRemoveQty(last.qty)) =>
        LET current == QtyOf(last.before, last.item.s)
        IN  IF current - last.qty.n <= 0
            THEN last.item.s \notin Keys(stock) /\ GetQty(stock, last.item) = 0
            ELSE /\ last.item.s \in Keys(stock)
                 /\ QtyOf(stock, last.item.s) = current - last.qty.n
                 /\ QtyOf(stock, last.item.s) > 0

C4_Witness ==
    /\ last.op = "remove"
    /\ HasKey(last.before, last.item)
    /\ IsInt(last.qty) /\ last.qty.n > 0
    /\ QtyOf(last.before, last.item.s) = last.qty.n
    /\ last.item.s \notin Keys(stock)

\* C5: remove_item on an item absent from the inventory, whatever the qty,
\* leaves the inventory as it was and raises nothing.
C5_RemoveAbsentIsNoOp ==
    (last.op = "remove" /\ ~HasKey(last.before, last.item)) =>
        /\ stock = last.before
        /\ last.raised = ""

C5_Witness ==
    /\ last.op = "remove"
    /\ IsStr(last.item) /\ last.item.s \in Names
    /\ last.item.s \notin Keys(last.before)
    /\ last.before # <<>>
    /\ IsInt(last.qty) /\ last.qty.n > 0

\* C6: remove_item with a negative or non-int qty, on a present or an absent
\* item, leaves the inventory as it was and raises nothing.
C6_RemoveInvalidQtyIsNoOp ==
    (last.op = "remove" /\ ~ValidRemoveQty(last.qty)) =>
        /\ stock = last.before
        /\ last.raised = ""

C6_Witness ==
    /\ last.op = "remove"
    /\ HasKey(last.before, last.item)
    /\ IsInt(last.qty) /\ last.qty.n < 0

\* C7: check_low_items(threshold) returns, each once, exactly the keys of the
\* inventory whose quantity is strictly below threshold, and leaves the
\* inventory as it was.
C7_ScanLowExact ==
    last.op = "scan" =>
        /\ {last.retItems[i] : i \in 1..Len(last.retItems)}
             = {k \in Keys(last.before) : QtyOf(last.before, k) < last.thr}
        /\ \A i, j \in 1..Len(last.retItems) :
               last.retItems[i] = last.retItems[j] => i = j
        /\ stock = last.before

C7_Witness ==
    /\ last.op = "scan"
    /\ Len(last.before) = 2
    /\ Len(last.retItems) = 1
    /\ \E k \in Keys(last.before) : QtyOf(last.before, k) = last.thr

\* C8: once a save_data to a path has completed, a load_data from that path
\* raises nothing and returns a dict equal to the saved one, whatever the path
\* held before the save.
C8_SaveLoadRoundTrip ==
    (last.op = "load" /\ saved[last.path].done) =>
        /\ last.raised = ""
        /\ last.retDict = saved[last.path].data

C8_Witness ==
    /\ last.op = "load" /\ saved[last.path].done
    /\ Len(last.retDict) = 2
    /\ \E i \in 1..2 : last.retDict[i].v >= 10
    /\ \E i \in 1..2 : last.retDict[i].v = 0

\* C9: load_data raises nothing, and returns the empty dict when the file is
\* missing, cannot be opened or read, or does not hold valid JSON.  (As
\* claimed; a file whose bytes are not UTF-8 makes it raise.)
C9_LoadNeverRaises ==
    last.op = "load" =>
        /\ last.raised = ""
        /\ (disk[last.path].kind # "text" \/ ~ValidJson(disk[last.path]))
               => last.retDict = <<>>

\* C10: add_item and remove_item leave every other item alone: for each name
\* other than the one passed, presence in the inventory and get_qty are the
\* same after the call as before it.
C10_OtherItemsUntouched ==
    last.op \in {"add", "remove"} =>
        \A j \in Names \cup {""} :
            (~IsStr(last.item) \/ j # last.item.s) =>
                /\ (j \in Keys(stock)) = (j \in Keys(last.before))
                /\ GetQty(stock, PyStr(j)) = GetQty(last.before, PyStr(j))

C10_Witness ==
    /\ last.op = "remove"
    /\ Len(last.before) = 2
    /\ Len(stock) = 1
    /\ last.before[1].k = last.item.s
====
